---- MODULE Spec2Model ----
(***************************************************************************)
(* SciDB-py, scidbpy/db.py: the Shim connection object DB (iquery,         *)
(* iquery_readlines, _shim), the unevaluated operator expression SciDB,    *)
(* and the decode step of iquery(fetch=True).                              *)
(*                                                                         *)
(* scidbpy/schema.py (Attribute, Dimension, Schema) is not part of the     *)
(* sources at hand; the operators that stand for it (ItemSize, FromBytes,  *)
(* MakeDimsUnique, MakeDimsAtts, FromString, ...) follow the written       *)
(* specification and the doctests of db.py.                                *)
(*                                                                         *)
(* Python offsets are 0-based, TLA+ sequences 1-based: Slice(b, o, n) is   *)
(* buf[o:o+n] when the slice lies within the buffer.                       *)
(***************************************************************************)
EXTENDS Integers, Sequences, FiniteSets, TLC

(***************************************************************************)
(* Bounds of the model                                                     *)
(***************************************************************************)
\* longest buffer the decode specification draws
MaxBuf == 5
\* longest descriptor sequence the decode specification draws
MaxFields == 2
\* most records the server encodes into one answer
MaxRecs == 2
\* longest string payload the server encodes
MaxStr == 1
\* sessions the Shim hands out before the model stops making calls
MaxSessions == 2
\* most arguments an operator expression is called with
MaxArgs == 3

\* byte values that occur in buffers: 255 is the "not null" indicator of the
\* doctests, 0 and 1 are missing-reason codes, small lengths and values
Byte == {0, 1, 255}

(***************************************************************************)
(* Sequence helpers                                                        *)
(***************************************************************************)
\* buf[o:o+n]
Slice(b, o, n) == SubSeq(b, o + 1, o + n)

RECURSIVE SeqsUpTo(_, _)
\* all sequences over S of length at most n
SeqsUpTo(S, n) ==
  IF n = 0 THEN {<<>>}
  ELSE LET shorter == SeqsUpTo(S, n - 1)
       IN  shorter \cup {Append(s, x) : s \in {t \in shorter : Len(t) = n - 1}, x \in S}

RECURSIVE Concat(_)
\* concatenation of a sequence of sequences
Concat(ss) == IF ss = <<>> THEN <<>> ELSE Head(ss) \o Concat(Tail(ss))

RECURSIVE SumWidths(_)
\* sum of the widths of a sequence of (offset, width) pairs
SumWidths(m) == IF m = <<>> THEN 0 ELSE Head(m)[2] + SumWidths(Tail(m))

(***************************************************************************)
(* Integers on the wire (little endian, two's complement)                  *)
(***************************************************************************)
RECURSIVE Pow256(_)
Pow256(w) == IF w = 0 THEN 1 ELSE 256 * Pow256(w - 1)

RECURSIVE FromLE(_)
\* unsigned little-endian value of a byte sequence
FromLE(bs) == IF bs = <<>> THEN 0 ELSE Head(bs) + 256 * FromLE(Tail(bs))

\* signed value of a byte sequence (numpy.frombuffer with a signed dtype)
SignedLE(bs) ==
  IF bs # <<>> /\ bs[Len(bs)] >= 128 THEN FromLE(bs) - Pow256(Len(bs)) ELSE FromLE(bs)

RECURSIVE ToLE(_, _)
\* w little-endian bytes of the non-negative integer v
ToLE(v, w) == IF w = 0 THEN <<>> ELSE <<v % 256>> \o ToLE(v \div 256, w - 1)

\* w bytes of the signed integer v
SignedToLE(v, w) == IF v < 0 THEN ToLE(v + Pow256(w), w) ELSE ToLE(v, w)

(***************************************************************************)
(* Attributes (schema.py, modelled from the specification)                 *)
(***************************************************************************)
\* the indicator byte of a value that is present: the doctests of db.py show
\* (255, v) for every valid value of a nullable attribute
NotNullCode == 255
\* bytes of the embedded length of a variable-width value
LenPrefixWidth == 1

\* a name is a base and a numeric suffix; suffix 0 prints as the base alone,
\* suffix n as base_n (the doctest renames dimension i to i_1)
Name(base) == [base |-> base, n |-> 0]

IsFixed(type) == type # "string"

\* byte width of the value of a fixed-width type
TypeWidth(type) == CASE type = "int8" -> 1 [] type = "int64" -> 8

\* bytes of the null indicator of an attribute
NullSize(att) == IF att.not_null THEN 0 ELSE 1

\* result of ItemSize when the embedded length lies beyond the buffer
Malformed == -1

\* Attribute.itemsize(buf, off): constant for fixed types, null indicator +
\* length prefix + embedded length for variable types
ItemSize(att, b, o) ==
  IF IsFixed(att.type)
  THEN NullSize(att) + TypeWidth(att.type)
  ELSE LET p == o + NullSize(att)
       IN  IF p + LenPrefixWidth > Len(b)
           THEN Malformed
           ELSE NullSize(att) + LenPrefixWidth + FromLE(Slice(b, p, LenPrefixWidth))

\* the sentinel a promoted column holds for an absent value
NullSentinel == [k |-> "nan"]

\* the value bytes of a field, interpreted per its type
Payload(att, b, o, sz) ==
  IF IsFixed(att.type)
  THEN SignedLE(Slice(b, o + NullSize(att), TypeWidth(att.type)))
  ELSE Slice(b, o + NullSize(att) + LenPrefixWidth,
             sz - NullSize(att) - LenPrefixWidth)

\* Attribute.frombytes(buf, off, sz, promo), for a field that lies within
\* the buffer
FromBytes(att, b, o, sz, promo) ==
  LET val == Payload(att, b, o, sz)
  IN  IF att.not_null
      THEN [k |-> "val", v |-> val]
      ELSE LET missing == b[o + 1]
           IN  IF promo
               THEN IF missing = NotNullCode THEN [k |-> "val", v |-> val]
                                             ELSE NullSentinel
               ELSE [k |-> "pair", missing |-> missing, v |-> val]

\* a field whose bytes do not all lie within the buffer cannot be extracted
Truncated(b, o, sz) == o + sz > Len(b)

(***************************************************************************)
(* The server's side of a result: cells and their encoding                 *)
(***************************************************************************)
\* a cell field is [missing, v]; missing is NotNullCode for a not-null field
EncodeField(att, f) ==
  (IF att.not_null THEN <<>> ELSE <<f.missing>>)
  \o (IF IsFixed(att.type)
      THEN SignedToLE(f.v, TypeWidth(att.type))
      ELSE ToLE(Len(f.v), LenPrefixWidth) \o f.v)

RECURSIVE EncodeRecord(_, _)
\* the fields of one record, in descriptor order
EncodeRecord(atts, r) ==
  IF atts = <<>> THEN <<>>
  ELSE EncodeField(Head(atts), Head(r)) \o EncodeRecord(Tail(atts), Tail(r))

RECURSIVE Encode(_, _)
\* the records of a result, one after the other
Encode(atts, rs) ==
  IF rs = <<>> THEN <<>> ELSE EncodeRecord(atts, Head(rs)) \o Encode(atts, Tail(rs))

\* the values a field of the given attribute takes in the model
FieldValues(att) ==
  LET vals == IF IsFixed(att.type)
              THEN {SignedLE(<<x>>) : x \in Byte}
              ELSE SeqsUpTo(Byte, MaxStr)
      codes == IF att.not_null THEN {NotNullCode} ELSE Byte
  IN  {[missing |-> m, v |-> x] : m \in codes, x \in vals}

RECURSIVE RecordsWithin(_, _)
\* the records of the given descriptors whose encoding takes at most n bytes
RecordsWithin(atts, n) ==
  IF atts = <<>> THEN {<<>>}
  ELSE UNION { {<<f>> \o r : r \in RecordsWithin(Tail(atts),
                                   n - Len(EncodeField(Head(atts), f)))}
               : f \in {g \in FieldValues(Head(atts)) :
                          Len(EncodeField(Head(atts), g)) <= n} }

RECURSIVE CellsWithin(_, _, _)
\* the results of at most k records whose encoding takes at most n bytes
CellsWithin(atts, k, n) ==
  IF k = 0 THEN {<<>>}
  ELSE {<<>>} \cup
       UNION { {<<r>> \o rs : rs \in CellsWithin(atts, k - 1,
                                      n - Len(EncodeRecord(atts, r)))}
               : r \in RecordsWithin(atts, n) }

\* an array has at least one attribute: a result without fields has no cells
ServerCells(atts) ==
  IF atts = <<>> THEN {<<>>} ELSE CellsWithin(atts, MaxRecs, MaxBuf)

(***************************************************************************)
(* State                                                                   *)
(***************************************************************************)
VARIABLES
  pc,        \* position of the running call; "idle" when none is running
  call,      \* the arguments of the current (or last) call
  outcome,   \* "none" while running, "ok" or the error the call ended with
  ret,       \* the value the call returned
  query,     \* iquery's local variable query
  id,        \* iquery's local variable id (0: not yet assigned)
  sch,       \* the schema object sch refers to: "none", "caller" or "local"
  heap,      \* the schema objects: the caller's and the one iquery builds
  buf,       \* iquery's local variable buf
  off,       \* iquery's local variable off
  buf_meta,  \* iquery's local variable buf_meta
  log,       \* the requests the current (or last) call sent to the Shim
  open,      \* Shim: the sessions that are open
  nextId,    \* Shim: the number of sessions handed out so far
  served,    \* Shim: the cells behind the last answer, when it is intact
  operators, \* DB.operators, downloaded when the DB is constructed
  scidb_url, \* DB.scidb_url
  scidb_auth \* DB._scidb_auth: None, or the user and password _shim sends

vars == <<pc, call, outcome, ret, query, id, sch, heap, buf, off, buf_meta,
          log, open, nextId, served, operators, scidb_url, scidb_auth>>

(***************************************************************************)
(* Schemas (schema.py, modelled from the specification and the doctests)   *)
(***************************************************************************)
Att(name, type, not_null) == [name |-> Name(name), type |-> type, not_null |-> not_null]

\* the schemas callers pass and the server shows: the doctests' scan(foo),
\* the doctest whose dimension collides with an attribute, two dimensions,
\* a schema without fields (schemas are not verified), Arrays._schema
Schemas ==
  { [dims |-> <<Name("i")>>, atts |-> <<Att("x", "int64", FALSE)>>],
    [dims |-> <<Name("i")>>,
     atts |-> <<Att("x", "int64", TRUE), Att("i", "int64", TRUE)>>],
    [dims |-> <<Name("i"), Name("j")>>, atts |-> <<Att("x", "int8", FALSE)>>],
    [dims |-> <<>>, atts |-> <<>>],
    [dims |-> <<Name("i")>>, atts |-> <<Att("name", "string", TRUE)>>] }

\* a schema text that Schema.fromstring rejects
Garbage == [parses |-> FALSE, empty |-> FALSE]

\* the text of a schema
SchemaText(s) == [parses |-> TRUE, schema |-> s]

\* Schema.fromstring: the schema a text denotes
FromString(text) == text.schema

AttNames(s) == [i \in 1..Len(s.atts) |-> s.atts[i].name]

\* the name a colliding dimension gets: the first suffix no attribute uses
FreshName(d, taken) ==
  [base |-> d.base,
   n |-> CHOOSE k \in 1..(Cardinality(taken) + 1) :
           /\ [base |-> d.base, n |-> k] \notin taken
           /\ \A j \in 1..(k - 1) : [base |-> d.base, n |-> j] \in taken]

\* Schema.make_dims_unique: rename the dimensions that collide with an
\* attribute; changed tells whether any was renamed
MakeDimsUnique(s) ==
  LET taken == {s.atts[i].name : i \in 1..Len(s.atts)}
      dims  == [i \in 1..Len(s.dims) |->
                  IF s.dims[i] \in taken THEN FreshName(s.dims[i], taken)
                                         ELSE s.dims[i]]
  IN  [changed |-> dims # s.dims, sch |-> [s EXCEPT !.dims = dims]]

\* Schema.make_dims_atts: the dimensions become int64 not-null attributes in
\* front of the attributes
MakeDimsAtts(s) ==
  [dims |-> <<>>,
   atts |-> [i \in 1..Len(s.dims) |->
               [name |-> s.dims[i], type |-> "int64", not_null |-> TRUE]]
            \o s.atts]

\* Schema.atts_fmt: the save format of the attributes
AttsFmt(s) ==
  [k |-> "fmt",
   atts |-> [i \in 1..Len(s.atts) |-> <<s.atts[i].type, s.atts[i].not_null>>]]

(***************************************************************************)
(* Queries and requests                                                    *)
(***************************************************************************)
NoQuery == [op |-> "none"]
Afl(text) == [op |-> "afl", text |-> text]

\* DB._show_query.format(query)
ShowQuery(q) == [op |-> "show", of |-> q]

\* 'cast({}, {:h})'.format(query, sch)
CastQuery(q, s) == [op |-> "cast", of |-> q, to |-> s]

\* the projected names with the attributes in front
ProjectNamesAttsFirst(s) == AttNames(s) \o s.dims

\* the names iquery projects: itertools.chain(sch.dims, sch.atts)
ProjectNames(s) == s.dims \o AttNames(s)

\* the (name, expression) pairs iquery applies: '{0}, {0}' for d in sch.dims
ApplyPairs(s) == [i \in 1..Len(s.dims) |-> <<s.dims[i], s.dims[i]>>]

\* 'project(apply({}, {}), {})'.format(query, ..., ...)
ProjectQuery(q, s) ==
  [op |-> "project",
   of |-> [op |-> "apply", of |-> q, pairs |-> ApplyPairs(s)],
   names |-> ProjectNames(s)]

NoSave == [k |-> "none"]
Tsv == [k |-> "tsv"]

\* no schema text came with the answer
NoText == [parses |-> FALSE, empty |-> TRUE]

\* a request to a Shim endpoint; reply is the session id new_session returns,
\* text the schema text read_bytes returns after 'show(...)' 
Req(ep, i, q, save, release) ==
  [ep |-> ep, id |-> i, query |-> q, save |-> save, release |-> release,
   reply |-> 0, text |-> NoText]

\* the request of line 499 without release=1
ExecReleaseReqKeep(i, q) == Req("execute_query", i, q, NoSave, 0)

\* iquery 499: self._shim(Shim.execute_query, id=id, query=query, release=1)
ExecReleaseReq(i, q) == Req("execute_query", i, q, NoSave, 1)

\* a request that releases its session
IsRelease(r) ==
  r.ep = "release_session" \/ (r.ep = "execute_query" /\ r.release = 1)

\* Shim: the open sessions after it has served the request
ShimOpen(o, r) == IF IsRelease(r) THEN o \ {r.id} ELSE o

None == [kind |-> "None"]

\* the arguments of a call with the defaults of iquery
DefaultCall ==
  [kind |-> "iquery", operator |-> <<>>, args |-> <<>>, query |-> NoQuery,
   fetch |-> FALSE, atts_only |-> FALSE, as_dataframe |-> FALSE,
   dataframe_promo |-> TRUE, schema |-> [kind |-> "none"]]

\* promotion whenever a DataFrame is asked for
PromoAlways(c) == c.as_dataframe

\* promo=as_dataframe and dataframe_promo
Promo(c) == c.as_dataframe /\ c.dataframe_promo

\* sch = schema: no copy, sch is the caller's object
NoCopyTarget(ref) == ref

\* copy.deepcopy(schema) yields an object of its own
DeepCopyTarget(ref) == "local"

\* a loop that stops one byte early
ScanContinuesEarly(o, b) == o + 1 < Len(b)

\* while off < len(buf)
ScanContinues(o, b) == o < Len(b)

\* an advance that skips a byte after every field
NextOffSkip(o, sz) == o + sz + 1

\* off += sz
NextOff(o, sz) == o + sz

\* a position that never advances
NextPosStuck(pos) == pos

\* pos += 1
NextPos(pos) == pos + 1

RECURSIVE ScanFields(_, _, _, _)
\* for att in sch.atts: sz = att.itemsize(buf, off); meta.append((off, sz));
\* off += sz
ScanFields(atts, b, o, meta) ==
  IF atts = <<>> THEN [err |-> FALSE, off |-> o, meta |-> meta]
  ELSE LET sz == ItemSize(Head(atts), b, o)
       IN  IF sz = Malformed
           THEN [err |-> TRUE, off |-> o, meta |-> meta]
           ELSE ScanFields(Tail(atts), b, NextOff(o, sz), Append(meta, <<o, sz>>))

\* tuple(att.frombytes(buf, off, sz, promo) for (att, (off, sz)) in zip(...))
Row(atts, b, meta, promo) ==
  [i \in 1..Len(atts) |-> FromBytes(atts[i], b, meta[i][1], meta[i][2], promo)]

\* numpy.empty: records that hold no value yet
EmptyArray(n, width) == [p \in 1..n |-> [i \in 1..width |-> [k |-> "uninit"]]]

RECURSIVE FillArray(_, _, _, _, _, _)
\* for meta in buf_meta: ar.put((pos,), ...); pos += 1  (pos counts from 1)
FillArray(ar, atts, b, metas, pos, promo) ==
  IF metas = <<>> THEN ar
  ELSE FillArray([ar EXCEPT ![pos] = Row(atts, b, Head(metas), promo)],
                 atts, b, Tail(metas), NextPos(pos), promo)

\* some field of some record does not lie within the buffer
AnyTruncated(b, metas) ==
  \E r \in 1..Len(metas) : \E i \in 1..Len(metas[r]) :
     Truncated(b, metas[r][i][1], metas[r][i][2])

(***************************************************************************)
(* Operator expressions (class SciDB)                                      *)
(***************************************************************************)
\* an operator name is a sequence of pieces, so that one name can be a
\* prefix of another
ServerOperators ==
  { <<"build">>, <<"remove">>, <<"REMOVE">>, <<"create_array">>,
    <<"create_array", "_using">> }

\* the names DB.__init__ adds to the downloaded list
OwnNames == { <<"arrays">>, <<"iquery">>, <<"iquery_readlines">> }

\* the values expressions are called with
ArgVals == { [ty |-> "str", s |-> "foo"], [ty |-> "str", s |-> "<x:int64>[i]"] }

\* Python's False
PyFalse == [ty |-> "bool", s |-> "False"]

LowerPiece(t) ==
  CASE t = "REMOVE" -> "remove"
    [] t = "HTTP"   -> "http"
    [] t = "S"      -> "s"
    [] OTHER        -> t

\* str.lower
Lower(name) == [i \in 1..Len(name) |-> LowerPiece(name[i])]

\* str.startswith
StartsWith(name, prefix) ==
  Len(prefix) <= Len(name) /\ SubSeq(name, 1, Len(prefix)) = prefix

\* SciDB.__init__: self.is_lazy
IsLazy(operator) == Lower(operator) \notin { <<"create_array">>, <<"remove">> }

\* SciDB.__call__: self.args after the call
CallArgs(operator, args) ==
  IF StartsWith(Lower(operator), <<"create_array">>) /\ Len(args) < 3
  THEN Append(args, PyFalse)
  ELSE args

\* SciDB.__str__: '{}({})'.format(operator, ', '.join('{}'.format(i) ...))
Str(operator, args) ==
  [op |-> "call", operator |-> operator,
   args |-> [i \in 1..Len(args) |-> args[i].s]]

(***************************************************************************)
(* The connection: DB.__init__ and DB._shim                                *)
(***************************************************************************)
\* a URL is a sequence of pieces, so that 'http' is a proper prefix of
\* 'https'.  The default of DB.__init__ and the URL of the doctests that
\* use SSL, the latter also in upper case
DefaultUrl == <<"http", "://localhost:8080">>
SslUrl == <<"http", "s", "://localhost:8083">>
SslUrlUpper == <<"HTTP", "S", "://localhost:8083">>

\* the URLs a DB is constructed with
Urls == {DefaultUrl, SslUrl, SslUrlUpper}

\* scidb_url of an object whose __init__ has not run
NoUrl == <<>>

\* the literal 'https' of line 325
Https == <<"http", "s">>

\* the doctest's scidb_auth=('foo', 'bar')
Credentials == [kind |-> "tuple", user |-> "foo", password |-> "bar"]

\* the values of the argument scidb_auth: the default None, or a pair
AuthArgs == {None, Credentials}

\* Python's truth value of an argument that is None or a pair
Truthy(x) == x # None

\* DB.__init__ 330-331: {'user': scidb_auth[0], 'password': scidb_auth[1]}
AuthDict(t) == [kind |-> "dict", user |-> t.user, password |-> t.password]

\* DB.__init__ 325: self.scidb_url.lower().startswith('https')
HttpsOnly(url) == StartsWith(Lower(url), Https)

\* DB.__init__ 324-334: self._scidb_auth, for arguments __init__ accepts
ScidbAuth(a) == IF Truthy(a) THEN AuthDict(a) ELSE None

\* DB.__init__ 324-328: the arguments __init__ raises the exception for
Refused(c) == Truthy(c.scidb_auth) /\ ~HttpsOnly(c.scidb_url)

\* DB._shim 525: requests.compat.urljoin(self.scidb_url, endpoint.value)
UrlJoin(base, endpoint) == base \o <<"/", endpoint>>

\* credentials added to the parameters of every request
CarriesCredentialsAnywhere(auth, endpoint) == Truthy(auth)

\* DB._shim 522: self._scidb_auth and endpoint in (Shim.cancel,
\* Shim.execute_query)
CarriesCredentials(auth, endpoint) ==
  Truthy(auth) /\ endpoint \in {"cancel", "execute_query"}

\* DB._shim 522-528: the request as it goes out: the URL it is sent to and
\* the user and password among its parameters (None when there are none)
ShimRequest(url, auth, r) ==
  r @@ [url  |-> UrlJoin(url, r.ep),
        auth |-> IF CarriesCredentials(auth, r.ep) THEN auth ELSE None]

\* the query of DB.__init__ 338
OperatorsQuery == Afl("project(list('operators'), name)")

\* the words the server answers that query with
OperatorList ==
  << <<"build">>, <<"remove">>, <<"REMOVE">>, <<"create_array">>,
     <<"create_array", "_using">> >>

\* the calls of DB(scidb_url, scidb_auth)
ConnectCalls ==
  { [DefaultCall EXCEPT !.kind = "init", !.query = OperatorsQuery]
      @@ [scidb_url |-> u, scidb_auth |-> a]
    : u \in Urls, a \in AuthArgs }

\* the connections of the doctests: connect() and
\* connect('https://localhost:8083', scidb_auth=('foo', 'bar'))
Connections ==
  { [scidb_url |-> DefaultUrl, scidb_auth |-> ScidbAuth(None)],
    [scidb_url |-> SslUrl, scidb_auth |-> ScidbAuth(Credentials)] }

(***************************************************************************)
(* Initial state: a DB has been constructed, no call is running            *)
(***************************************************************************)
NoSchema == [dims |-> <<>>, atts |-> <<>>]
NotServed == [intact |-> FALSE, cells |-> <<>>]

Init ==
  /\ pc = "idle"
  /\ call = DefaultCall
  /\ outcome = "none"
  /\ ret = None
  /\ query = NoQuery
  /\ id = 0
  /\ sch = "none"
  /\ \E s \in Schemas : heap = [caller |-> s, local |-> NoSchema]
  /\ buf = <<>>
  /\ off = 0
  /\ buf_meta = <<>>
  /\ log = <<>>
  /\ open = {}
  /\ nextId = 0
  /\ served = NotServed
  /\ operators = ServerOperators \cup OwnNames
  /\ \E c \in Connections :
       scidb_url = c.scidb_url /\ scidb_auth = c.scidb_auth

(***************************************************************************)
(* Calls                                                                   *)
(***************************************************************************)
\* the texts the server answers 'show(...)' with
SchemaTexts == {SchemaText(s) : s \in Schemas} \cup {Garbage}

\* the schema strings callers pass: the doctest's '<x:int64 not null>[i=0:2]'
\* and a text that does not parse
SchemaStrings ==
  { SchemaText([dims |-> <<Name("i")>>, atts |-> <<Att("x", "int64", TRUE)>>]),
    Garbage }

\* schema=None, a Schema instance (the caller's object), or a string
SchemaArgs ==
  { [kind |-> "none"], [kind |-> "instance"] }
  \cup { [kind |-> "string", text |-> t] : t \in SchemaStrings }

\* the calls of iquery: with fetch=False the other arguments are not read
\* and keep their defaults
IqueryCalls ==
  { [DefaultCall EXCEPT !.query = Afl("scan(foo)")] }
  \cup
  { [DefaultCall EXCEPT !.query = Afl("scan(foo)"), !.fetch = TRUE,
                        !.atts_only = a, !.as_dataframe = d,
                        !.dataframe_promo = p, !.schema = s]
    : a \in BOOLEAN, d \in BOOLEAN, p \in BOOLEAN, s \in SchemaArgs }

\* the local variables of a call that starts
Fresh(c, q) ==
  /\ call' = c
  /\ query' = q
  /\ id' = 0
  /\ sch' = "none"
  /\ heap' = [heap EXCEPT !.local = NoSchema]
  /\ buf' = <<>>
  /\ off' = 0
  /\ buf_meta' = <<>>
  /\ log' = <<>>
  /\ served' = NotServed
  /\ UNCHANGED <<open, nextId, operators, scidb_url, scidb_auth>>

\* a call that goes to the Shim starts
Enter(c, q) ==
  /\ Fresh(c, q)
  /\ pc' = "new_session"
  /\ outcome' = "none"
  /\ ret' = None

\* the call c ends with an exception; when __init__ raises there is no DB
\* object to make further calls on
RaiseIn(c, e) ==
  /\ pc' = IF c.kind = "init" THEN "no_db" ELSE "idle"
  /\ outcome' = e
  /\ ret' = None

\* the running call ends with an exception
Raise(e) == RaiseIn(call, e)

\* the call returns v
Return(v) == pc' = "idle" /\ outcome' = "ok" /\ ret' = v

\* DB(scidb_url, scidb_auth), lines 313-339: store the arguments, refuse
\* SciDB credentials without https, and start downloading the operators
Connect ==
  /\ pc = "connect"
  /\ scidb_url' = call.scidb_url
  /\ IF Refused(call)
     THEN /\ RaiseIn(call, "Exception")
          /\ UNCHANGED <<scidb_auth, query>>
     ELSE /\ scidb_auth' = ScidbAuth(call.scidb_auth)
          /\ query' = call.query
          /\ pc' = "new_session"
          /\ UNCHANGED <<outcome, ret>>
  /\ UNCHANGED <<call, id, sch, heap, buf, off, buf_meta, log, open, nextId,
                 served, operators>>

\* db.iquery(query, fetch, atts_only, as_dataframe, dataframe_promo, schema)
CallIquery ==
  /\ pc = "idle"
  /\ nextId < MaxSessions
  /\ \E c \in IqueryCalls : Enter(c, c.query)

\* db.iquery_readlines(query)
CallReadlines ==
  /\ pc = "idle"
  /\ nextId < MaxSessions
  /\ Enter([DefaultCall EXCEPT !.kind = "readlines",
                               !.query = Afl("project(list(), name)")],
           Afl("project(list(), name)"))

\* db.<name>(*args): DB.__getattr__, SciDB.__init__ and SciDB.__call__
CallExpr ==
  /\ pc = "idle"
  /\ \E name \in ServerOperators \cup { <<"missing">> } :
     \E args \in SeqsUpTo(ArgVals, MaxArgs) :
       LET c == [DefaultCall EXCEPT !.kind = "expr", !.operator = name,
                                    !.args = args]
           a == CallArgs(name, args)
       IN  IF name \notin operators
           THEN Fresh(c, NoQuery) /\ RaiseIn(c, "AttributeError")
           ELSE IF IsLazy(name)
           THEN Fresh(c, NoQuery)
                /\ Return([kind |-> "expr", operator |-> name, args |-> a,
                           is_lazy |-> TRUE])
           ELSE nextId < MaxSessions /\ Enter(c, Str(name, a))

(***************************************************************************)
(* The steps of a call: one per Shim request and per block between them    *)
(***************************************************************************)
\* DB._shim sends the request; the entry records what was sent
Sent(r) == log' = Append(log, ShimRequest(scidb_url, scidb_auth, r))

\* iquery 416, iquery_readlines 513: id = self._shim(Shim.new_session).text
NewSession ==
  /\ pc = "new_session"
  /\ \E ok \in BOOLEAN :
       IF ok
       THEN /\ nextId' = nextId + 1
            /\ open' = open \cup {nextId + 1}
            /\ id' = nextId + 1
            /\ Sent([Req("new_session", 0, NoQuery, NoSave, 0)
                       EXCEPT !.reply = nextId + 1])
            /\ pc' = IF call.kind \in {"readlines", "init"} THEN "rl_exec"
                     ELSE IF ~call.fetch THEN "exec_release"
                     ELSE IF call.schema.kind = "none" THEN "show_exec"
                     ELSE "schema"
            /\ UNCHANGED <<outcome, ret>>
       ELSE /\ Sent(Req("new_session", 0, NoQuery, NoSave, 0))
            /\ Raise("HTTPError")
            /\ UNCHANGED <<nextId, open, id>>
  /\ UNCHANGED <<call, query, sch, heap, buf, off, buf_meta, served, operators,
                 scidb_url, scidb_auth>>

\* iquery 420-425: use the provided schema
UseSchema ==
  /\ pc = "schema"
  /\ IF call.schema.kind = "instance"
     THEN /\ sch' = DeepCopyTarget("caller")
          /\ heap' = [heap EXCEPT ![DeepCopyTarget("caller")] = heap.caller]
          /\ pc' = "unpack"
          /\ UNCHANGED <<outcome, ret>>
     ELSE IF call.schema.text.parses
     THEN /\ sch' = "local"
          /\ heap' = [heap EXCEPT !.local = FromString(call.schema.text)]
          /\ pc' = "unpack"
          /\ UNCHANGED <<outcome, ret>>
     ELSE /\ Raise("ParseError")
          /\ UNCHANGED <<sch, heap>>
  /\ UNCHANGED <<call, query, id, buf, off, buf_meta, log, open, nextId,
                 served, operators, scidb_url, scidb_auth>>

\* iquery 428-432: execute 'show(...)'
ShowExec ==
  /\ pc = "show_exec"
  /\ Sent(Req("execute_query", id, ShowQuery(query), Tsv, 0))
  /\ \E ok \in BOOLEAN :
       IF ok THEN pc' = "show_read" /\ UNCHANGED <<outcome, ret>>
             ELSE Raise("HTTPError")
  /\ UNCHANGED <<call, query, id, sch, heap, buf, off, buf_meta, open,
                 nextId, served, operators, scidb_url, scidb_auth>>

\* iquery 433-435: download the text and parse it
ShowRead ==
  /\ pc = "show_read"
  /\ \E ok \in BOOLEAN :
       IF ok
       THEN \E text \in SchemaTexts :
              /\ Sent([Req("read_bytes", id, NoQuery, NoSave, 0)
                         EXCEPT !.text = text])
              /\ IF text.parses
                 THEN /\ sch' = "local"
                      /\ heap' = [heap EXCEPT !.local = FromString(text)]
                      /\ pc' = "unpack"
                      /\ UNCHANGED <<outcome, ret>>
                 ELSE Raise("ParseError") /\ UNCHANGED <<sch, heap>>
       ELSE /\ Sent(Req("read_bytes", id, NoQuery, NoSave, 0))
            /\ Raise("HTTPError")
            /\ UNCHANGED <<sch, heap>>
  /\ UNCHANGED <<call, query, id, buf, off, buf_meta, open, nextId, served,
                 operators, scidb_url, scidb_auth>>

\* iquery 437-452: unless atts_only, project the dimensions and turn them
\* into attributes
Unpack ==
  /\ pc = "unpack"
  /\ IF ~call.atts_only
     THEN LET u == MakeDimsUnique(heap[sch])
              q == IF u.changed THEN CastQuery(query, u.sch) ELSE query
          IN  /\ query' = ProjectQuery(q, u.sch)
              /\ heap' = [heap EXCEPT ![sch] = MakeDimsAtts(u.sch)]
     ELSE UNCHANGED <<query, heap>>
  /\ pc' = "exec"
  /\ UNCHANGED <<call, outcome, ret, id, sch, buf, off, buf_meta, log, open,
                 nextId, served, operators, scidb_url, scidb_auth>>

\* iquery 455-456: execute the query
ExecQuery ==
  /\ pc = "exec"
  /\ Sent(Req("execute_query", id, query, AttsFmt(heap[sch]), 0))
  /\ \E ok \in BOOLEAN :
       IF ok THEN pc' = "read" /\ UNCHANGED <<outcome, ret>>
             ELSE Raise("HTTPError")
  /\ UNCHANGED <<call, query, id, sch, heap, buf, off, buf_meta, open,
                 nextId, served, operators, scidb_url, scidb_auth>>

\* the cells the server answers with in the whole-program specification:
\* record r holds the value r - 1 in every field, present in the odd
\* records and missing (reason code 0) in the even ones
SampleField(att, r) ==
  [missing |-> IF att.not_null \/ r % 2 = 1 THEN NotNullCode ELSE 0,
   v |-> IF IsFixed(att.type) THEN r - 1 ELSE <<r - 1>>]

SampleRecord(atts, r) == [i \in 1..Len(atts) |-> SampleField(atts[i], r)]

SampleCells(atts) ==
  IF atts = <<>> THEN {<<>>}
  ELSE {[r \in 1..n |-> SampleRecord(atts, r)] : n \in 0..MaxRecs}

\* an answer is the encoding of the cells, or that encoding cut short by a
\* byte or followed by a stray byte
Answers(atts) ==
  LET whole == {[served |-> [intact |-> TRUE, cells |-> c],
                 bytes |-> Encode(atts, c)] : c \in SampleCells(atts)}
  IN  whole
      \cup {[served |-> NotServed, bytes |-> SubSeq(w.bytes, 1, Len(w.bytes) - 1)]
            : w \in {x \in whole : x.bytes # <<>>}}
      \cup {[served |-> NotServed, bytes |-> Append(w.bytes, 0)] : w \in whole}

\* iquery 457: download the content
ReadBytes ==
  /\ pc = "read"
  /\ Sent(Req("read_bytes", id, NoQuery, NoSave, 0))
  /\ \E ok \in BOOLEAN :
       IF ok
       THEN \E a \in Answers(heap[sch].atts) :
              /\ buf' = a.bytes
              /\ served' = a.served
              /\ pc' = "release"
              /\ UNCHANGED <<outcome, ret>>
       ELSE Raise("HTTPError") /\ UNCHANGED <<buf, served>>
  /\ UNCHANGED <<call, query, id, sch, heap, off, buf_meta, open, nextId,
                 operators, scidb_url, scidb_auth>>

\* iquery 459-463: release the session, then off = 0; buf_meta = []
ReleaseSession ==
  /\ pc = "release"
  /\ Sent(Req("release_session", id, NoQuery, NoSave, 0))
  /\ \E ok \in BOOLEAN :
       IF ok THEN /\ open' = ShimOpen(open, Req("release_session", id, NoQuery, NoSave, 0))
                  /\ pc' = "scan"
                  /\ UNCHANGED <<outcome, ret>>
             ELSE Raise("HTTPError") /\ UNCHANGED open
  /\ off' = 0
  /\ buf_meta' = <<>>
  /\ UNCHANGED <<call, query, id, sch, heap, buf, nextId, served, operators,
                 scidb_url, scidb_auth>>

\* iquery 464-470: one iteration of the while loop.  buf_meta grows without
\* bound when off does not advance; the model follows it for MaxBuf + 1
\* iterations
ScanRecord ==
  /\ pc = "scan"
  /\ ScanContinues(off, buf)
  /\ Len(buf_meta) <= MaxBuf
  /\ LET r == ScanFields(heap[sch].atts, buf, off, <<>>)
     IN  IF r.err
         THEN Raise("MalformedField") /\ UNCHANGED <<off, buf_meta>>
         ELSE /\ off' = r.off
              /\ buf_meta' = Append(buf_meta, r.meta)
              /\ UNCHANGED <<pc, outcome, ret>>
  /\ UNCHANGED <<call, query, id, sch, heap, buf, log, open, nextId, served,
                 operators, scidb_url, scidb_auth>>

\* iquery 472-496: build the record array and return it
Extract ==
  /\ pc = "scan"
  /\ ~ScanContinues(off, buf)
  /\ LET atts == heap[sch].atts
         ar   == FillArray(EmptyArray(Len(buf_meta), Len(atts)), atts, buf,
                           buf_meta, 1, Promo(call))
     IN  IF AnyTruncated(buf, buf_meta)
         THEN Raise("TruncatedBuffer")
         ELSE Return([kind |-> IF call.as_dataframe THEN "frame" ELSE "array",
                      names |-> [i \in 1..Len(atts) |-> atts[i].name],
                      rows |-> ar])
  /\ UNCHANGED <<call, query, id, sch, heap, buf, off, buf_meta, log, open,
                 nextId, served, operators, scidb_url, scidb_auth>>

\* iquery 499: execute the query and release the session with it
ExecRelease ==
  /\ pc = "exec_release"
  /\ Sent(ExecReleaseReq(id, query))
  /\ \E ok \in BOOLEAN :
       IF ok THEN open' = ShimOpen(open, ExecReleaseReq(id, query)) /\ Return(None)
             ELSE Raise("HTTPError") /\ UNCHANGED open
  /\ UNCHANGED <<call, query, id, sch, heap, buf, off, buf_meta, nextId,
                 served, operators, scidb_url, scidb_auth>>

\* iquery_readlines 514
RlExec ==
  /\ pc = "rl_exec"
  /\ Sent(Req("execute_query", id, query, Tsv, 0))
  /\ \E ok \in BOOLEAN :
       IF ok THEN pc' = "rl_read" /\ UNCHANGED <<outcome, ret>>
             ELSE Raise("HTTPError")
  /\ UNCHANGED <<call, query, id, sch, heap, buf, off, buf_meta, open,
                 nextId, served, operators, scidb_url, scidb_auth>>

\* the texts the server answers iquery_readlines with, split into words
Lines == { <<>>, <<"foo">>, <<"0", "1", "4">> }

\* the answers to the query of the running call
LinesFor(c) == IF c.kind = "init" THEN {OperatorList} ELSE Lines

\* iquery_readlines 515: ret = ....text.split()
RlRead ==
  /\ pc = "rl_read"
  /\ Sent(Req("read_bytes", id, NoQuery, NoSave, 0))
  /\ \E ok \in BOOLEAN :
       IF ok
       THEN \E ls \in LinesFor(call) :
              /\ ret' = [kind |-> "list", lines |-> ls]
              /\ pc' = "rl_release"
              /\ UNCHANGED outcome
       ELSE Raise("HTTPError")
  /\ UNCHANGED <<call, query, id, sch, heap, buf, off, buf_meta, open,
                 nextId, served, operators, scidb_url, scidb_auth>>

\* DB.__init__ 338-341: self.operators, the downloaded names and the DB's own
\* (the list is sorted; only membership is ever asked of it)
Operators(lines) == {lines[i] : i \in 1..Len(lines)} \cup OwnNames

\* iquery_readlines 516-518: release the session and return ret; in
\* DB.__init__ the returned list becomes self.operators
RlRelease ==
  /\ pc = "rl_release"
  /\ Sent(Req("release_session", id, NoQuery, NoSave, 0))
  /\ \E ok \in BOOLEAN :
       IF ok
       THEN /\ open' = ShimOpen(open, Req("release_session", id, NoQuery, NoSave, 0))
            /\ IF call.kind = "init"
               THEN /\ operators' = Operators(ret.lines)
                    /\ Return(None)
               ELSE /\ Return(ret)
                    /\ UNCHANGED operators
       ELSE Raise("HTTPError") /\ UNCHANGED <<open, operators>>
  /\ UNCHANGED <<call, query, id, sch, heap, buf, off, buf_meta, nextId,
                 served, scidb_url, scidb_auth>>

Next ==
  \/ CallIquery
  \/ CallReadlines
  \/ CallExpr
  \/ NewSession
  \/ UseSchema
  \/ ShowExec
  \/ ShowRead
  \/ Unpack
  \/ ExecQuery
  \/ ReadBytes
  \/ ReleaseSession
  \/ ScanRecord
  \/ Extract
  \/ ExecRelease
  \/ RlExec
  \/ RlRead
  \/ RlRelease

Spec == Init /\ [][Next]_vars

(***************************************************************************)
(* The program from the construction of the DB on: DB(scidb_url,           *)
(* scidb_auth) is about to run, for every URL and credentials argument     *)
(***************************************************************************)
ConnectInit ==
  /\ pc = "connect"
  /\ call \in ConnectCalls
  /\ outcome = "none"
  /\ ret = None
  /\ query = NoQuery
  /\ id = 0
  /\ sch = "none"
  /\ \E s \in Schemas : heap = [caller |-> s, local |-> NoSchema]
  /\ buf = <<>>
  /\ off = 0
  /\ buf_meta = <<>>
  /\ log = <<>>
  /\ open = {}
  /\ nextId = 0
  /\ served = NotServed
  /\ operators = {}
  /\ scidb_url = NoUrl
  /\ scidb_auth = None

ConnectNext == Connect \/ Next

ConnectSpec == ConnectInit /\ [][ConnectNext]_vars

(***************************************************************************)
(* The decode step on its own: iquery(fetch=True, atts_only=True,          *)
(* schema=<instance>) has released its session and is about to scan the    *)
(* buffer (line 461), for every descriptor sequence and buffer within the  *)
(* bounds                                                                  *)
(***************************************************************************)
DecodeKinds == [type : {"int8", "string"}, not_null : BOOLEAN]

\* descriptor sequences; the fields are named f_1, f_2, ...
DecodeAtts ==
  { [i \in 1..Len(ks) |-> [name |-> [base |-> "f", n |-> i],
                           type |-> ks[i].type, not_null |-> ks[i].not_null]]
    : ks \in SeqsUpTo(DecodeKinds, MaxFields) }

DecodeInit ==
  /\ pc = "scan"
  /\ \E d \in BOOLEAN, p \in BOOLEAN :
       call = [DefaultCall EXCEPT !.query = Afl("scan(foo)"), !.fetch = TRUE,
                                  !.atts_only = TRUE, !.as_dataframe = d,
                                  !.dataframe_promo = p,
                                  !.schema = [kind |-> "instance"]]
  /\ outcome = "none"
  /\ ret = None
  /\ query = Afl("scan(foo)")
  /\ id = 1
  /\ sch = "local"
  /\ \E atts \in DecodeAtts :
       /\ heap = [caller |-> [dims |-> <<>>, atts |-> atts],
                  local |-> [dims |-> <<>>, atts |-> atts]]
       /\ \/ \E cells \in ServerCells(atts) :
               /\ served = [intact |-> TRUE, cells |-> cells]
               /\ buf = Encode(atts, cells)
          \/ /\ served = NotServed
             /\ buf \in SeqsUpTo(Byte, MaxBuf)
       /\ log = [i \in 1..4 |->
                  ShimRequest(DefaultUrl, None,
                    << [Req("new_session", 0, NoQuery, NoSave, 0) EXCEPT !.reply = 1],
                       Req("execute_query", 1, Afl("scan(foo)"),
                           AttsFmt([dims |-> <<>>, atts |-> atts]), 0),
                       Req("read_bytes", 1, NoQuery, NoSave, 0),
                       Req("release_session", 1, NoQuery, NoSave, 0) >>[i])]
  /\ off = 0
  /\ buf_meta = <<>>
  /\ open = {}
  /\ nextId = 1
  /\ operators = ServerOperators \cup OwnNames
  /\ scidb_url = DefaultUrl
  /\ scidb_auth = None

DecodeNext == ScanRecord \/ Extract

DecodeSpec == DecodeInit /\ [][DecodeNext]_vars

(***************************************************************************)
(* Properties of the decode step (specification DecodeSpec)                *)
(***************************************************************************)
\* the descriptor sequence the decode step works with
Descriptors == heap[sch].atts

\* the recorded (offset, width) pairs, record by record and field by field
Pairs == Concat(buf_meta)

\* the decode step has ended and returned the records
Decoded == pc = "idle" /\ call.fetch /\ outcome = "ok" /\ ret.kind \in {"array", "frame"}

\* the decode step has ended with a decode error and returned nothing
DecodeFailed == outcome \in {"TruncatedBuffer", "MalformedField"} /\ ret = None

\* every pair starts where the previous one ends, the first one at offset 0
Contiguous(m) ==
  \A i \in 1..Len(m) :
    m[i][1] = IF i = 1 THEN 0 ELSE m[i - 1][1] + m[i - 1][2]

\* C1: the recorded (offset, width) pairs start at offset 0 and are
\* contiguous; when the decode step completes without error their widths sum
\* to len(buffer); a scan that ends with the offset different from
\* len(buffer) ends in a decode error and returns nothing
C1_OffsetsPartitionBuffer ==
  /\ Contiguous(Pairs)
  /\ Decoded => (SumWidths(Pairs) = Len(buf) /\ off = Len(buf))
  /\ (pc = "idle" /\ off # Len(buf)) => DecodeFailed

\* a decode that returned at least two records of at least two fields, one
\* of them of variable width
C1_Witness ==
  /\ Decoded
  /\ Len(buf_meta) >= 2
  /\ Len(Descriptors) >= 2
  /\ \E i \in 1..Len(Descriptors) : ~IsFixed(Descriptors[i].type)

AllFixed(atts) == \A i \in 1..Len(atts) : IsFixed(atts[i].type)

RECURSIVE FixedWidth(_)
\* the per-record width of fixed-width descriptors
FixedWidth(atts) ==
  IF atts = <<>> THEN 0
  ELSE NullSize(Head(atts)) + TypeWidth(Head(atts).type) + FixedWidth(Tail(atts))

\* the buffer ends part-way through a record of fixed-width fields
CutMidRecord ==
  /\ AllFixed(Descriptors)
  /\ FixedWidth(Descriptors) > 0
  /\ Len(buf) % FixedWidth(Descriptors) # 0

\* C2: with fixed-width fields only and per-record width W > 0, a buffer
\* whose length is not a multiple of W makes the decode fail with
\* TruncatedBuffer, and no records are returned
C2_FixedWidthTruncation ==
  (pc = "idle" /\ CutMidRecord) => (outcome = "TruncatedBuffer" /\ ret = None)

\* a buffer holding one whole record and part of a second one was rejected
C2_Witness ==
  /\ pc = "idle"
  /\ CutMidRecord
  /\ Len(buf) > FixedWidth(Descriptors)
  /\ Len(buf_meta) = 2
  /\ outcome = "TruncatedBuffer"

\* the value a cell field is returned as
Returned(att, f, promo) ==
  IF att.not_null THEN [k |-> "val", v |-> f.v]
  ELSE IF ~promo THEN [k |-> "pair", missing |-> f.missing, v |-> f.v]
  ELSE IF f.missing = NotNullCode THEN [k |-> "val", v |-> f.v]
  ELSE NullSentinel

\* C3: when the buffer is the encoding of the server's cells (records of at
\* least one field, encoded field by field in descriptor order), the decode
\* step returns as many records as were encoded, in the same order, each
\* field value at the position of its descriptor; for fixed-width
\* descriptors that number is len(buffer) / per-record width
C3_RoundTrip ==
  (pc = "idle" /\ served.intact) =>
    /\ Decoded
    /\ Len(ret.rows) = Len(served.cells)
    /\ \A r \in 1..Len(served.cells) :
         /\ Len(ret.rows[r]) = Len(Descriptors)
         /\ \A i \in 1..Len(Descriptors) :
              ret.rows[r][i] =
                Returned(Descriptors[i], served.cells[r][i], Promo(call))
    /\ (AllFixed(Descriptors) /\ Descriptors # <<>>) =>
         Len(ret.rows) * FixedWidth(Descriptors) = Len(buf)

\* two different records of two fields were encoded and returned
C3_Witness ==
  /\ Decoded
  /\ served.intact
  /\ Len(served.cells) = 2
  /\ served.cells[1] # served.cells[2]
  /\ Len(Descriptors) = 2
  /\ Len(ret.rows) = 2

\* the indicator byte and the payload of field i of record r in the buffer
Indicator(r, i) == buf[buf_meta[r][i][1] + 1]
PayloadOf(r, i) ==
  Payload(Descriptors[i], buf, buf_meta[r][i][1], buf_meta[r][i][2])

\* the nullable fields of the decoded records are returned as follows when
\* the indicator byte of a present value is present
NullableSplit(present) ==
  Decoded =>
    \A r \in 1..Len(buf_meta) : \A i \in 1..Len(Descriptors) :
      ~Descriptors[i].not_null =>
        IF call.as_dataframe /\ call.dataframe_promo
        THEN ret.rows[r][i] =
               IF Indicator(r, i) = present
               THEN [k |-> "val", v |-> PayloadOf(r, i)]
               ELSE NullSentinel
        ELSE ret.rows[r][i] =
               [k |-> "pair", missing |-> Indicator(r, i), v |-> PayloadOf(r, i)]

\* C4 as stated: indicator 0 means present, any other indicator means absent
C4_IndicatorZeroPresent == NullableSplit(0)

\* C4 as amended: indicator 255 means the value is present and the decoded
\* value is the payload interpreted per its type; any other indicator means
\* absent and, with promotion on (as_dataframe and dataframe_promo), the
\* column holds the null sentinel; with promotion off the raw
\* (indicator, value) pair is exposed unchanged
C4_NullableSplit == NullableSplit(NotNullCode)

\* a promoted result that holds both a present and an absent value
C4_Witness ==
  /\ Decoded
  /\ call.as_dataframe /\ call.dataframe_promo
  /\ \E r \in 1..Len(buf_meta) : \E i \in 1..Len(Descriptors) :
       ~Descriptors[i].not_null /\ Indicator(r, i) = NotNullCode
  /\ \E r \in 1..Len(buf_meta) : \E i \in 1..Len(Descriptors) :
       ~Descriptors[i].not_null /\ Indicator(r, i) # NotNullCode

\* C9: the scanning loop terminates because the offset strictly increases
\* on every iteration of the outer loop
C9_OffsetStrictlyIncreases ==
  [][(pc = "scan" /\ pc' = "scan" /\ buf_meta' # buf_meta) => off' > off]_vars

(***************************************************************************)
(* Properties of the whole program (specification Spec)                    *)
(***************************************************************************)
\* the last call went through iquery or iquery_readlines
WentToShim ==
  call.kind \in {"iquery", "readlines"}
  \/ (call.kind = "expr" /\ call.operator \in operators /\ ~IsLazy(call.operator))

\* the last call went to the Shim and completed without error
Completed == pc = "idle" /\ outcome = "ok" /\ WentToShim

\* the positions of the log that hold a request of the given kind
Positions(ep) == {i \in 1..Len(log) : log[i].ep = ep}

\* C5: a call of iquery or iquery_readlines that completes without error
\* occupies exactly one session: its first request is new_session, every
\* later request carries the id that new_session returned, each read_bytes
\* follows an execute_query of the same session, the session is released
\* exactly once (by release_session, or by release=1 on the execute_query
\* when fetch=False) and nothing is sent after the release
C5_OneSessionPerCall ==
  Completed =>
    /\ Len(log) >= 2
    /\ Positions("new_session") = {1}
    /\ log[1].reply # 0
    /\ \A i \in 2..Len(log) : log[i].id = log[1].reply
    /\ \A i \in Positions("read_bytes") :
         \E j \in 1..(i - 1) :
           log[j].ep = "execute_query" /\ log[j].id = log[i].id
    /\ {i \in 1..Len(log) : IsRelease(log[i])} = {Len(log)}
    /\ (call.kind = "iquery" /\ call.fetch) => log[Len(log)].ep = "release_session"
    /\ (call.kind # "readlines" /\ ~call.fetch) => log[Len(log)].ep = "execute_query"
    /\ log[1].reply \notin open

\* iquery(fetch=True) without a schema completed: six requests in one session
C5_Witness ==
  /\ Completed
  /\ call.kind = "iquery" /\ call.fetch /\ call.schema.kind = "none"
  /\ Len(log) = 6

\* the schema iquery(fetch=True) starts from
Resolved ==
  CASE call.schema.kind = "instance" -> heap.caller
    [] call.schema.kind = "string"   -> FromString(call.schema.text)
    [] call.schema.kind = "none"     -> FromString(log[3].text)

\* the query of the last execute_query of the log
SentQuery == log[CHOOSE i \in Positions("execute_query") :
                   \A j \in Positions("execute_query") : j <= i].query

\* iquery(fetch=True) returned the records
Fetched == Completed /\ call.kind = "iquery" /\ call.fetch

\* C6: iquery(fetch=True) with atts_only false returns records made of all
\* dimension fields in schema order followed by all attribute fields in
\* schema order, and the query sent projects exactly those names in that
\* order; with atts_only true the records are made of the attribute fields
\* only, in schema order, and the query is sent unmodified
C6_DimensionsThenAttributes ==
  Fetched =>
    LET s == Resolved
        nd == Len(s.dims)
        na == Len(s.atts)
    IN  /\ \A r \in 1..Len(ret.rows) : Len(ret.rows[r]) = Len(ret.names)
        /\ IF call.atts_only
           THEN /\ ret.names = AttNames(s)
                /\ SentQuery = call.query
           ELSE /\ Len(ret.names) = nd + na
                /\ \A i \in 1..nd : ret.names[i].base = s.dims[i].base
                /\ \A i \in 1..na : ret.names[nd + i] = s.atts[i].name
                /\ \A i \in 1..nd : \A j \in 1..na : ret.names[i] # s.atts[j].name
                /\ SentQuery.op = "project"
                /\ SentQuery.names = ret.names
                /\ SentQuery.of.op = "apply"
                /\ SentQuery.of.pairs = [i \in 1..nd |-> <<ret.names[i], ret.names[i]>>]

\* records with a renamed dimension in front of two attributes were returned
C6_Witness ==
  /\ Fetched
  /\ ~call.atts_only
  /\ Len(Resolved.dims) = 1 /\ Len(Resolved.atts) = 2
  /\ ret.names[1].n = 1
  /\ Len(ret.rows) >= 1

\* C7: no step of any call changes the Schema instance of the caller, also
\* when its dimensions are renamed or turned into attributes in the call,
\* so that every call with that instance starts from the same schema
C7_CallerSchemaUnchanged == [][heap'.caller = heap.caller]_vars

\* a second call with the caller's instance has renamed a dimension and
\* turned the dimensions into attributes, in its own copy
C7_Witness ==
  /\ nextId = 2
  /\ Fetched
  /\ call.schema.kind = "instance"
  /\ ~call.atts_only
  /\ heap.caller.dims # <<>>
  /\ heap[sch].dims = <<>>
  /\ ret.names[1].n = 1

\* the arguments a create_array expression is executed with
WithTemporary(operator, args) ==
  IF Lower(operator) = <<"create_array">> /\ Len(args) < 3
  THEN Append(args, PyFalse)
  ELSE args

\* C8: an expression of an operator other than create_array and remove is
\* unevaluated: calling it sends no request and returns the expression with
\* exactly the arguments given; calling a create_array or remove expression
\* executes exactly one query, its string form, with False appended for
\* create_array when fewer than three arguments are given
C8_LazyUnlessCreateOrRemove ==
  (pc = "idle" /\ outcome = "ok" /\ call.kind = "expr") =>
    IF Lower(call.operator) \notin { <<"create_array">>, <<"remove">> }
    THEN /\ log = <<>>
         /\ ret.kind = "expr"
         /\ ret.operator = call.operator
         /\ ret.args = call.args
    ELSE /\ Cardinality(Positions("execute_query")) = 1
         /\ SentQuery = Str(call.operator, WithTemporary(call.operator, call.args))
         /\ ret = None

\* C10: no session is left open when a call has ended, with or without error
C10_NoSessionLeftOpen == pc = "idle" => open = {}

(***************************************************************************)
(* Properties of the connection (specification ConnectSpec)                *)
(***************************************************************************)
\* the request went out with the SciDB user and password among its parameters
WithCredentials(r) == r.auth # None

\* every request of the log that carries the SciDB user and password is an
\* execute_query or cancel request to a URL for which https(url) holds, and
\* no new_session, read_bytes or release_session request carries them
CredentialsConfined(https(_)) ==
  \A i \in 1..Len(log) :
    /\ WithCredentials(log[i]) =>
         /\ log[i].ep \in {"execute_query", "cancel"}
         /\ https(log[i].url)
    /\ log[i].ep \in {"new_session", "read_bytes", "release_session"} =>
         ~WithCredentials(log[i])

\* DB(scidb_url, scidb_auth) has run with credentials and a URL for which
\* https(url) does not hold
RanWithoutHttps(https(_)) ==
  /\ call.kind = "init"
  /\ pc # "connect"
  /\ call.scidb_auth # None
  /\ ~https(call.scidb_url)

\* the construction ended with the exception and the Shim saw no request
FailedBeforeAnyRequest ==
  /\ pc = "no_db"
  /\ outcome = "Exception"
  /\ log = <<>>
  /\ nextId = 0

\* the URL starts with 'https' as written
LiteralHttps(url) == StartsWith(url, Https)

\* the URL starts with 'https' when letter case is ignored
AnyCaseHttps(url) == StartsWith(Lower(url), Https)

\* C11 as stated: every Shim request that carries the SciDB user and
\* password is an execute_query or cancel request sent to a URL that starts
\* with 'https'; constructing a DB with scidb_auth and a URL that does not
\* start with 'https' fails with an exception before any request is sent;
\* new_session, read_bytes and release_session requests never carry the
\* credentials.  DB('HTTPS://localhost:8083', ('foo', 'bar')) is constructed
\* and sends requests, although its URL does not start with 'https'.
C11_RefusedUnlessLiteralHttps ==
  /\ CredentialsConfined(LiteralHttps)
  /\ RanWithoutHttps(LiteralHttps) => FailedBeforeAnyRequest

\* C11, amended: every Shim request that carries the SciDB user and password
\* is an execute_query or cancel request sent to a URL that starts with
\* 'https' in any letter case; constructing a DB with scidb_auth and a URL
\* whose lower-cased form does not start with 'https' fails with an
\* exception before any request is sent; new_session, read_bytes and
\* release_session requests never carry the credentials.
C11_CredentialsOnlyOverHttps ==
  /\ CredentialsConfined(AnyCaseHttps)
  /\ RanWithoutHttps(AnyCaseHttps) => FailedBeforeAnyRequest

\* a DB constructed with credentials has downloaded its operators: the
\* execute_query request carried the credentials, the requests around it
\* did not
C11_Witness ==
  /\ call.kind = "init"
  /\ call.scidb_auth # None
  /\ pc = "idle"
  /\ outcome = "ok"
  /\ Len(log) = 4
  /\ WithCredentials(log[2])
  /\ log[2].ep = "execute_query"
  /\ \A i \in {1, 3, 4} : ~WithCredentials(log[i])
  /\ operators # {}

====
